---- MODULE Spec2Model ----
(***************************************************************************)
(* Witness generation of plonky2 (plonky2/src/iop/generator.rs) and the    *)
(* EVM memory replay (evm/src/witness/memory.rs).                          *)
(*                                                                         *)
(* Spec    : generate_partial_witness, one action per step of its code.    *)
(* MemSpec : MemoryState::apply_ops / get / set over op sequences.         *)
(* OpSpec  : MemoryOp::new over channels and clocks.                       *)
(* SegSpec : MemorySegmentState::get / set on any segment.                 *)
(* EqSpec  : equality of two WitnessGeneratorRef.                          *)
(***************************************************************************)
EXTENDS Integers, Sequences, FiniteSets, TLC

VARIABLES
    prover_data,                     \* generators, representative_map, generator_indices_by_watches
    inputs,                          \* PartialWitness::target_values handed to the call
    inputs_iter,                     \* what inputs.target_values.into_iter() has still to yield
    witness,                         \* PartitionWitness: representative -> Option<F>
    pending_generator_indices,
    next_pending_generator_indices,
    generator_is_expired,
    remaining_generators,
    buffer,                          \* GeneratedValues::target_values
    pos,                             \* position of the `for` loop in pending_generator_indices
    pc,                              \* where the call is
    round,                           \* history: iterations of the while loop started
    invoked,                         \* history: generator indices in the order run() was called
    finished_log,                    \* history: generator indices in the order run() returned true
    written,                         \* history: representatives a write was made to
    unequal_rewrite,                 \* history: a write met a different stored value
    call,                            \* history: 1 for the first call, 2 for the repeated call
    first_call,                      \* history: outcome of the first call
    kernel_code,                     \* the bytes MemoryState::new was given
    memory,                          \* MemoryState
    mem_ops,                         \* history: every op handed to apply_ops so far
    mem_pc,                          \* "ready", or "panicked" after an index out of bounds
    mem_got,                         \* the last get: Some(<<address, value>>)
    emitted,                         \* history: the pairs the generators appended to the buffer
    invoked_round,                   \* history: the round of each entry of invoked
    new_ops,                         \* history: the calls of MemoryOp::new and what they gave
    segment_state,                   \* a MemorySegmentState
    segment_was,                     \* history: the segment before the last get or set
    segment_op,                      \* history: the last get or set: Some(record)
    eq_args,                         \* the two WitnessGeneratorRef handed to eq
    eq_result                        \* what eq returned: Some(flag)

sched_vars == <<prover_data, inputs, inputs_iter, witness, pending_generator_indices,
                next_pending_generator_indices, generator_is_expired, remaining_generators,
                buffer, pos, pc, round, invoked, finished_log, written, unequal_rewrite,
                call, first_call, emitted, invoked_round>>

mem_vars == <<kernel_code, memory, mem_ops, mem_pc, mem_got>>

unit_vars == <<new_ops, segment_state, segment_was, segment_op, eq_args, eq_result>>

vars == <<sched_vars, mem_vars, unit_vars>>

----------------------------------------------------------------------------
(* Bounds of the model *)

MaxGens == 2        \* longest generator vector of the general configurations
MaxChain == 3       \* longest copy chain
MaxOut == 2         \* most pairs an abstract generator appends in one invocation
MaxOps == 2         \* most memory ops applied to one MemoryState
MaxClock == 2       \* largest clock handed to MemoryOp::new
MaxVirt == 2        \* longest segment content a MemorySegmentState starts with

(* The field, an external collaborator: a prime field small enough to enumerate *)
FieldOrder == 11

F == 0 .. (FieldOrder - 1)

RECURSIVE Pow(_, _)
Pow(x, n) == IF n = 0 THEN 1 ELSE (x * Pow(x, n - 1)) % FieldOrder

inverse(x) == Pow(x, FieldOrder - 2)

----------------------------------------------------------------------------
(* Option<T> *)

None == <<>>
Some(x) == <<x>>
Unwrap(o) == o[1]

(* Targets *)

vt(i) == [kind |-> "VirtualTarget", index |-> i]
wire(r, c) == [kind |-> "Wire", row |-> r, column |-> c]

VirtualTargets == {vt(i) : i \in 0 .. MaxChain}
Targets == VirtualTargets \cup {wire(0, 0)}

Range(s) == {s[i] : i \in DOMAIN s}

----------------------------------------------------------------------------
(* PartitionWitness *)

rep(t) == prover_data.representative_map[t]

PartitionWitness_new == [t \in Targets |-> None]

try_get_target(w, t) == w[rep(t)]

contains(w, t) == try_get_target(w, t) # None

contains_all(w, ts) == \A i \in DOMAIN ts : contains(w, ts[i])

get_target(w, t) == Unwrap(try_get_target(w, t))

\* the write is refused (the call panics) when a different value is stored
set_target_inconsistent(w, t, v) == contains(w, t) /\ get_target(w, t) # v

set_target(w, t, v) == [w EXCEPT ![rep(t)] = Some(v)]

set_target_returning_rep(w, t, v) == IF contains(w, t) THEN None ELSE Some(rep(t))

----------------------------------------------------------------------------
(* Generators.  A generator is a record; `id` is what id() returns.        *)
(* "SimpleGenerator" is any SimpleGenerator behind the adapter: a list of  *)
(* dependencies and a run_once that may append any of the pairs `outs`.    *)
(* "WitnessGenerator" is any implementation of the trait: a watch list and *)
(* a run that may append any of the pairs `outs` and return either flag.   *)

CopyGenerator(src, dst) == [id |-> "CopyGenerator", src |-> src, dst |-> dst]

RandomValueGenerator(target) == [id |-> "RandomValueGenerator", target |-> target]

NonzeroTestGenerator(to_test, dummy) ==
    [id |-> "NonzeroTestGenerator", to_test |-> to_test, dummy |-> dummy]

ConstantGenerator(row, constant_index, wire_index, constant) ==
    [id |-> "ConstantGenerator", row |-> row, constant_index |-> constant_index,
     wire_index |-> wire_index, constant |-> constant]

SimpleGenerator(deps, outs) == [id |-> "SimpleGenerator", deps |-> deps, outs |-> outs]

WitnessGenerator(watch, outs) == [id |-> "WitnessGenerator", watch |-> watch, outs |-> outs]

SimpleIds == {"CopyGenerator", "RandomValueGenerator", "NonzeroTestGenerator",
              "ConstantGenerator", "SimpleGenerator"}

IsSimple(g) == g.id \in SimpleIds

\* every buffer content an abstract generator may append: at most MaxOut of its pairs
OutSeqs(outs) ==
    UNION {[1 .. n -> outs] : n \in 0 .. MaxOut}

dependencies(g) ==
    CASE g.id = "CopyGenerator" -> <<g.src>>
      [] g.id = "RandomValueGenerator" -> <<>>
      [] g.id = "NonzeroTestGenerator" -> <<g.to_test>>
      [] g.id = "ConstantGenerator" -> <<>>
      [] g.id = "SimpleGenerator" -> g.deps

\* CopyGenerator writes the value back to its source
run_once_to_src(g, w) ==
    CASE g.id = "CopyGenerator" -> {<< <<g.src, get_target(w, g.src)>> >>}
      [] g.id = "RandomValueGenerator" -> {<< <<g.target, v>> >> : v \in F}
      [] g.id = "NonzeroTestGenerator" ->
            LET to_test_value == get_target(w, g.to_test)
                dummy_value == IF to_test_value = 0 THEN 1 ELSE inverse(to_test_value)
            IN  {<< <<g.dummy, dummy_value>> >>}
      [] g.id = "ConstantGenerator" -> {<< <<wire(g.row, g.wire_index), g.constant>> >>}
      [] g.id = "SimpleGenerator" -> OutSeqs(g.outs)

\* the buffers run_once may append (one, unless the generator draws a value)
run_once(g, w) ==
    CASE g.id = "CopyGenerator" -> {<< <<g.dst, get_target(w, g.src)>> >>}
      [] g.id = "RandomValueGenerator" -> {<< <<g.target, v>> >> : v \in F}
      [] g.id = "NonzeroTestGenerator" ->
            LET to_test_value == get_target(w, g.to_test)
                dummy_value == IF to_test_value = 0 THEN 1 ELSE inverse(to_test_value)
            IN  {<< <<g.dummy, dummy_value>> >>}
      [] g.id = "ConstantGenerator" -> {<< <<wire(g.row, g.wire_index), g.constant>> >>}
      [] g.id = "SimpleGenerator" -> OutSeqs(g.outs)

watch_list(g) == IF IsSimple(g) THEN dependencies(g) ELSE g.watch

\* the writers of util::serialization: a sequence of <<width in bytes, value>>
write_bool(b) == << <<1, IF b THEN 1 ELSE 0>> >>

write_usize(n) == << <<8, n>> >>

write_field(v) == << <<8, v>> >>

write_target(t) ==
    IF t.kind = "Wire"
    THEN write_bool(TRUE) \o write_usize(t.row) \o write_usize(t.column)
    ELSE write_bool(FALSE) \o write_usize(t.index)

\* id() of a generator
id(g) == g.id

\* serialize of the four generators of generator.rs: what it appends to dst
serialize(g) ==
    CASE g.id = "CopyGenerator" -> write_target(g.src) \o write_target(g.dst)
      [] g.id = "RandomValueGenerator" -> write_target(g.target)
      [] g.id = "NonzeroTestGenerator" -> write_target(g.to_test) \o write_target(g.dummy)
      [] g.id = "ConstantGenerator" ->
            write_usize(g.row) \o write_usize(g.constant_index)
                \o write_usize(g.wire_index) \o write_field(g.constant)

\* PartialEq for WitnessGeneratorRef: both are serialized into empty buffers
eq(self, other) ==
    LET buf1 == <<>> \o serialize(self)
        buf2 == <<>> \o serialize(other)
    IN  buf1 = buf2

\* the adapter reports finished whether or not the dependencies are there
adapter_run_unchecked(g, w) ==
    IF contains_all(w, dependencies(g))
    THEN {[finished |-> TRUE, out |-> o] : o \in run_once(g, w)}
    ELSE {[finished |-> TRUE, out |-> <<>>]}

\* the adapter calls run_once but reports that it has not finished
adapter_run_unfinished(g, w) ==
    IF contains_all(w, dependencies(g))
    THEN {[finished |-> FALSE, out |-> o] : o \in run_once(g, w)}
    ELSE {[finished |-> FALSE, out |-> <<>>]}

\* SimpleGeneratorAdapter::run
adapter_run(g, w) ==
    IF contains_all(w, dependencies(g))
    THEN {[finished |-> TRUE, out |-> o] : o \in run_once(g, w)}
    ELSE {[finished |-> FALSE, out |-> <<>>]}

\* WitnessGenerator::run: the results (flag, appended pairs) a call may have
run(g, w) ==
    IF IsSimple(g)
    THEN adapter_run(g, w)
    ELSE {[finished |-> f, out |-> o] : f \in BOOLEAN, o \in OutSeqs(g.outs)}

----------------------------------------------------------------------------
(* The watch index of the circuit data: for every generator in order and   *)
(* every entry of its watch list in order, the generator's index is        *)
(* appended under the representative of the entry.                         *)

RECURSIVE Repeat(_, _)
Repeat(x, n) == IF n = 0 THEN <<>> ELSE <<x>> \o Repeat(x, n - 1)

WatchCount(g, key, r) == Cardinality({k \in DOMAIN watch_list(g) : key[watch_list(g)[k]] = r})

RECURSIVE WatchersUpTo(_, _, _, _)
WatchersUpTo(gens, key, r, n) ==
    IF n = 0 THEN <<>>
    ELSE WatchersUpTo(gens, key, r, n - 1) \o Repeat(n, WatchCount(gens[n], key, r))

IndexByWatches(gens, key) == [r \in Targets |-> WatchersUpTo(gens, key, r, Len(gens))]

Identity == [t \in Targets |-> t]

ProverData(gens, repmap) ==
    [generators |-> gens,
     representative_map |-> repmap,
     generator_indices_by_watches |-> IndexByWatches(gens, repmap)]

generators == prover_data.generators

generator_indices_by_watches == prover_data.generator_indices_by_watches

----------------------------------------------------------------------------
(* The calls checked: a generator vector, a representative map, the watch  *)
(* index built from them, and the inputs.                                  *)

SeqsUpTo(S, n) == UNION {[1 .. k -> S] : k \in 0 .. n}

Merge(a, b) == [Identity EXCEPT ![a] = b]

\* vt(0) and vt(1) both stand under the wire
UnderWire == [Identity EXCEPT ![vt(0)] = wire(0, 0), ![vt(1)] = wire(0, 0)]

RepMaps == {Identity, Merge(vt(1), vt(0)), UnderWire}

CopyPool ==
    {CopyGenerator(vt(0), vt(1)), CopyGenerator(vt(1), vt(2)), CopyGenerator(vt(0), vt(2)),
     CopyGenerator(vt(1), vt(0))}

GeneratorPool ==
    CopyPool
    \cup {NonzeroTestGenerator(vt(0), vt(1))}
    \cup {RandomValueGenerator(vt(1))}
    \cup {ConstantGenerator(0, 0, 0, 1), CopyGenerator(wire(0, 0), vt(2))}
    \cup {SimpleGenerator(<<vt(0), vt(1)>>, {<<vt(2), 1>>, <<vt(2), 2>>})}
    \cup {WitnessGenerator(<<>>, {<<vt(1), 1>>, <<vt(1), 2>>}),
          WitnessGenerator(<<vt(0), vt(1)>>, {<<vt(2), 1>>, <<vt(2), 2>>})}

\* the generators compared: those of generator.rs
EqPool ==
    {g \in GeneratorPool : g.id \notin {"SimpleGenerator", "WitnessGenerator"}}
    \cup {NonzeroTestGenerator(vt(1), vt(2)), RandomValueGenerator(vt(0)),
          ConstantGenerator(0, 0, 0, 2)}

\* PartialWitness: a map from targets to values, as its set of pairs
InputValues == {0, 3, 9}

InputMaps ==
    {{<<vt(0), a>> : a \in A} \cup {<<vt(1), b>> : b \in B} :
        A \in {{}} \cup {{v} : v \in InputValues}, B \in {{}, {1}}}

\* run() of the generator is a function of the witness it reads
IsFunction(g) == g.id \in {"CopyGenerator", "NonzeroTestGenerator", "ConstantGenerator"}

\* the generator vectors checked: at most one generator of a vector draws its result
GeneratorVectors ==
    {gens \in SeqsUpTo(GeneratorPool, MaxGens) :
        \A i, j \in DOMAIN gens : ~IsFunction(gens[i]) /\ ~IsFunction(gens[j]) => i = j}

GeneralCalls ==
    {[prover_data |-> ProverData(gens, repmap), inputs |-> ins] :
        gens \in GeneratorVectors, repmap \in RepMaps, ins \in InputMaps}

\* the copy chain vt(0) -> vt(1) -> ... -> vt(n), its generators in any order
Chain(n) == [k \in 1 .. n |-> CopyGenerator(vt(k - 1), vt(k))]

Orders(n) == {p \in [1 .. n -> 1 .. n] : \A i, j \in 1 .. n : p[i] = p[j] => i = j}

ChainCalls ==
    {[prover_data |-> ProverData([k \in 1 .. n |-> Chain(n)[p[k]]], Identity),
      inputs |-> {<<vt(0), v>>}] :
        <<n, p, v>> \in UNION {{<<n, p, v>> : p \in Orders(n), v \in InputValues} : n \in 1 .. MaxChain}}

\* circuit data whose watch index is keyed by the raw entries of the watch lists
ProverDataRaw(gens, repmap) ==
    [generators |-> gens,
     representative_map |-> repmap,
     generator_indices_by_watches |-> IndexByWatches(gens, Identity)]

\* a copy from vt(1), which stands under another representative, alone or with the
\* generator that writes the representative
RawIndexCalls ==
    {[prover_data |-> ProverDataRaw(gens, repmap), inputs |-> ins] :
        gens \in {<<CopyGenerator(vt(1), vt(2))>>,
                  <<CopyGenerator(vt(1), vt(2)), ConstantGenerator(0, 0, 0, 1)>>,
                  <<ConstantGenerator(0, 0, 0, 1), CopyGenerator(vt(1), vt(2))>>},
        repmap \in {Merge(vt(1), vt(0)), UnderWire},
        ins \in {{}} \cup {{<<vt(0), v>>} : v \in InputValues}}

Calls == GeneralCalls \cup ChainCalls \cup RawIndexCalls

IsChainCall(n) ==
    /\ Len(generators) = n
    /\ Range(generators) = Range(Chain(n))
    /\ prover_data.representative_map = Identity
    /\ \E v \in F : inputs = {<<vt(0), v>>}

----------------------------------------------------------------------------
(* evm/src/witness/memory.rs.  Vectors are sequences: index k of the code  *)
(* is position k + 1 here.                                                 *)

\* crate::cpu::membus and crate::memory::segments, imported at lines 3 and 13
NUM_GP_CHANNELS == 5
NUM_CHANNELS == NUM_GP_CHANNELS + 1
SegmentCode == 0
SegmentCount == 2

U256Values == {0, 1, 42}

Code == [kind |-> "Code", n |-> 0]
GeneralPurpose(n) == [kind |-> "GeneralPurpose", n |-> n]

\* GeneralPurpose(n) is given the index n, the index of its predecessor
MemoryChannel_index_unshifted(channel) == IF channel.kind = "Code" THEN 0 ELSE channel.n

\* MemoryChannel::index, for a channel that passes the assertion
MemoryChannel_index(channel) == IF channel.kind = "Code" THEN 0 ELSE channel.n + 1

MemoryChannel_index_panics(channel) == channel.kind = "GeneralPurpose" /\ ~(channel.n < NUM_GP_CHANNELS)

MemoryAddress(context, segment, virt) == [context |-> context, segment |-> segment, virt |-> virt]

MemoryOp_new(channel, clock, address, kind, value) ==
    [filter |-> TRUE,
     timestamp |-> clock * NUM_CHANNELS + MemoryChannel_index(channel),
     address |-> address,
     kind |-> kind,
     value |-> value]

\* a padding row: any op with filter = false
PaddingOp(address, kind, value) ==
    [filter |-> FALSE, timestamp |-> 0, address |-> address, kind |-> kind, value |-> value]

MemorySegmentState_default == [content |-> <<>>]

MemorySegmentState_get(seg, virtual_addr) ==
    IF virtual_addr < Len(seg.content) THEN seg.content[virtual_addr + 1] ELSE 0

\* Vec::resize
resize(content, new_len, value) ==
    [i \in 1 .. new_len |-> IF i <= Len(content) THEN content[i] ELSE value]

\* the content is resized to virtual_addr + 1 whatever its length
MemorySegmentState_set_resizing(seg, virtual_addr, value) ==
    [content |-> [resize(seg.content, virtual_addr + 1, 0) EXCEPT ![virtual_addr + 1] = value]]

MemorySegmentState_set(seg, virtual_addr, value) ==
    LET grown == IF virtual_addr >= Len(seg.content)
                 THEN resize(seg.content, virtual_addr + 1, 0)
                 ELSE seg.content
    IN  [content |-> [grown EXCEPT ![virtual_addr + 1] = value]]

MemoryContextState_default == [segments |-> [s \in 0 .. (SegmentCount - 1) |-> MemorySegmentState_default]]

MemoryState_default == [contexts |-> <<MemoryContextState_default>>]

MemoryState_new(code) ==
    [contexts |-> [MemoryState_default.contexts EXCEPT ![1].segments[SegmentCode].content = code]]

\* contexts[address.context] and segments[address.segment] are in bounds
Indexable(state, address) ==
    /\ address.context < Len(state.contexts)
    /\ address.segment < SegmentCount

MemoryState_get(state, address) ==
    MemorySegmentState_get(state.contexts[address.context + 1].segments[address.segment], address.virt)

MemoryState_set(state, address, val) ==
    [contexts |-> [state.contexts EXCEPT ![address.context + 1].segments[address.segment] =
                        MemorySegmentState_set(@, address.virt, val)]]

\* MemoryState::apply_ops: the state it leaves, and whether it panicked on the way
RECURSIVE apply_ops(_, _)
apply_ops(state, ops) ==
    IF ops = <<>> THEN [state |-> state, panicked |-> FALSE]
    ELSE LET op == Head(ops) IN
         IF op.kind = "Write"
         THEN IF Indexable(state, op.address)
              THEN apply_ops(MemoryState_set(state, op.address, op.value), Tail(ops))
              ELSE [state |-> state, panicked |-> TRUE]
         ELSE apply_ops(state, Tail(ops))

MemoryAddresses ==
    {MemoryAddress(0, 0, 0), MemoryAddress(0, 0, 1), MemoryAddress(0, 1, 0),
     MemoryAddress(1, 0, 0), MemoryAddress(0, SegmentCount, 0)}

MemoryOps ==
    {MemoryOp_new(Code, 0, a, k, v) : a \in MemoryAddresses, k \in {"Read", "Write"}, v \in U256Values}
    \cup {PaddingOp(a, k, v) : a \in MemoryAddresses, k \in {"Read", "Write"}, v \in U256Values}

KernelCodes == {<<>>, <<1>>}

\* the channels handed to MemoryOp::new: the valid ones and GeneralPurpose(NUM_GP_CHANNELS)
MemoryChannels == {Code} \cup {GeneralPurpose(k) : k \in 0 .. NUM_GP_CHANNELS}

Clocks == 0 .. MaxClock

MemoryUnused ==
    /\ kernel_code = <<>>
    /\ memory = MemoryState_default
    /\ mem_ops = <<>>
    /\ mem_pc = "ready"
    /\ mem_got = None

NewOpsUnused == new_ops = <<>>

SegmentUnused ==
    /\ segment_state = MemorySegmentState_default
    /\ segment_was = MemorySegmentState_default
    /\ segment_op = None

EqUnused ==
    /\ eq_args = <<>>
    /\ eq_result = None

----------------------------------------------------------------------------
(* generate_partial_witness.  Generator indices are 1-based here: index i  *)
(* stands for index i - 1 of the code.                                     *)

\* the indices are collected from the last to the first
initial_pending_reversed(n) == [i \in 1 .. n |-> n + 1 - i]

\* the queue starts empty: a generator runs only once it is woken
initial_pending_none(n) == <<>>

\* line 46: (0..generators.len()).collect()
initial_pending(n) == [i \in 1 .. n |-> i]

\* the queue is taken in an order that differs from one call to the next
for_item_unordered(pending, p) == IF call = 1 THEN pending[p] ELSE pending[Len(pending) + 1 - p]

\* line 58: the for loop takes the queue in order
for_item(pending, p) == pending[p]

\* the expired flag is not looked at
is_skipped_never(expired, generator_idx) == FALSE

\* lines 59-61: an expired generator is not run
is_skipped(expired, generator_idx) == expired[generator_idx]

\* every invocation is counted off, finished or not
remaining_after_any(remaining, finished) == remaining - 1

\* lines 64-67: a finished generator is counted off
remaining_after(remaining, finished) == IF finished THEN remaining - 1 ELSE remaining

\* the generated pair replaces the witness
merge_replacing(w, t, v) == [PartitionWitness_new EXCEPT ![rep(t)] = Some(v)]

\* lines 69-74: the generated pair is merged into the witness
merge(w, t, v) == set_target(w, t, v)

\* a refused write is passed over and the call goes on
aborts_never(w, t, v) == FALSE

\* lines 71-74: a write refused by the witness ends the call
aborts(w, t, v) == set_target_inconsistent(w, t, v)

\* the queue of this round is kept and the new one appended to it
after_round_keeping(pending, next) == pending \o next

\* line 89: the next round takes the queue built in this one
after_round(pending, next) == next

NoOutcome == [pc |-> "none", witness |-> PartitionWitness_new, invoked |-> <<>>]

\* the state of a call on entry, lines 34-52 before the inputs are written
Enter(pd, ins) ==
    /\ inputs_iter = ins
    /\ witness = PartitionWitness_new
    /\ pending_generator_indices = initial_pending(Len(pd.generators))
    /\ next_pending_generator_indices = <<>>
    /\ generator_is_expired = [i \in 1 .. Len(pd.generators) |-> FALSE]
    /\ remaining_generators = Len(pd.generators)
    /\ buffer = <<>>
    /\ pos = 1
    /\ pc = "inputs"
    /\ round = 0
    /\ invoked = <<>>
    /\ finished_log = <<>>
    /\ written = {}
    /\ unequal_rewrite = FALSE
    /\ emitted = {}
    /\ invoked_round = <<>>

Init ==
    /\ \E c \in Calls : prover_data = c.prover_data /\ inputs = c.inputs
    /\ Enter(prover_data, inputs)
    /\ call = 1
    /\ first_call = NoOutcome
    /\ MemoryUnused
    /\ NewOpsUnused
    /\ SegmentUnused
    /\ EqUnused

config_vars == <<prover_data, inputs, mem_vars, unit_vars>>
queue_vars == <<pending_generator_indices, next_pending_generator_indices, pos>>
expiry_vars == <<generator_is_expired, remaining_generators>>
history_vars == <<round, invoked, finished_log>>
call_vars == <<call, first_call>>
trace_vars == <<emitted, invoked_round>>

\* lines 40-42: one input pair is written; into_iter() of a hash map yields in any order
SetInput ==
    /\ pc = "inputs"
    /\ \E p \in inputs_iter :
        /\ inputs_iter' = inputs_iter \ {p}
        /\ unequal_rewrite' = (unequal_rewrite \/ set_target_inconsistent(witness, p[1], p[2]))
        /\ IF aborts(witness, p[1], p[2])
           THEN /\ pc' = "inconsistent"
                /\ UNCHANGED <<witness, written>>
           ELSE /\ witness' = set_target(witness, p[1], p[2])
                /\ written' = written \cup {rep(p[1])}
                /\ UNCHANGED pc
    /\ UNCHANGED <<config_vars, queue_vars, expiry_vars, buffer, history_vars, call_vars, trace_vars>>

\* lines 46-52: the inputs are written, the loop is reached
InputsDone ==
    /\ pc = "inputs"
    /\ inputs_iter = {}
    /\ pc' = "while"
    /\ UNCHANGED <<config_vars, inputs_iter, witness, queue_vars, expiry_vars, buffer,
                   history_vars, written, unequal_rewrite, call_vars, trace_vars>>

\* lines 55-56: the loop test and the start of a round
StartRound ==
    /\ pc = "while"
    /\ pending_generator_indices # <<>>
    /\ next_pending_generator_indices' = <<>>
    /\ pos' = 1
    /\ round' = round + 1
    /\ pc' = "for"
    /\ UNCHANGED <<config_vars, inputs_iter, witness, pending_generator_indices, expiry_vars,
                   buffer, invoked, finished_log, written, unequal_rewrite, call_vars, trace_vars>>

\* line 55: the loop test fails
ExitLoop ==
    /\ pc = "while"
    /\ pending_generator_indices = <<>>
    /\ pc' = "assert"
    /\ UNCHANGED <<config_vars, inputs_iter, witness, queue_vars, expiry_vars, buffer,
                   history_vars, written, unequal_rewrite, call_vars, trace_vars>>

\* lines 59-61: an expired generator is skipped
SkipExpired ==
    /\ pc = "for"
    /\ pos <= Len(pending_generator_indices)
    /\ is_skipped(generator_is_expired, for_item(pending_generator_indices, pos))
    /\ pos' = pos + 1
    /\ UNCHANGED <<config_vars, inputs_iter, witness, pending_generator_indices,
                   next_pending_generator_indices, expiry_vars, buffer, pc, history_vars,
                   written, unequal_rewrite, call_vars, trace_vars>>

\* lines 63-67: run() is called on the generator at the head of the round
RunGenerator ==
    /\ pc = "for"
    /\ pos <= Len(pending_generator_indices)
    /\ LET generator_idx == for_item(pending_generator_indices, pos) IN
        /\ ~is_skipped(generator_is_expired, generator_idx)
        /\ \E r \in run(generators[generator_idx], witness) :
            /\ buffer' = buffer \o r.out
            /\ remaining_generators' = remaining_after(remaining_generators, r.finished)
            /\ IF r.finished
               THEN /\ generator_is_expired' = [generator_is_expired EXCEPT ![generator_idx] = TRUE]
                    /\ finished_log' = Append(finished_log, <<generator_idx, Len(invoked) + 1>>)
               ELSE UNCHANGED <<generator_is_expired, finished_log>>
            /\ emitted' = emitted \cup Range(r.out)
        /\ invoked' = Append(invoked, generator_idx)
        /\ invoked_round' = Append(invoked_round, round)
    /\ pc' = "drain"
    /\ UNCHANGED <<config_vars, inputs_iter, witness, queue_vars, round, written,
                   unequal_rewrite, call_vars>>

\* the test of line 81 inverted: the expired watchers are enqueued
Watchers_expired(new_rep, expired) ==
    IF new_rep = None THEN <<>>
    ELSE SelectSeq(generator_indices_by_watches[Unwrap(new_rep)], LAMBDA i : expired[i])

\* the loop over the watchers stops one short of the last
Watchers_but_last(new_rep, expired) ==
    IF new_rep = None THEN <<>>
    ELSE LET ws == generator_indices_by_watches[Unwrap(new_rep)]
         IN  SelectSeq(SubSeq(ws, 1, Len(ws) - 1), LAMBDA i : ~expired[i])

\* the non-expired watchers of a newly populated representative, lines 78-85
Watchers(new_rep, expired) ==
    IF new_rep = None THEN <<>>
    ELSE SelectSeq(generator_indices_by_watches[Unwrap(new_rep)], LAMBDA i : ~expired[i])

\* the woken watchers are appended to the queue of the round that is running
enqueue_this_round(pending, next, woken) == [pending |-> pending \o woken, next |-> next]

\* lines 82-84: the woken watchers are pushed onto the queue of the next round
enqueue(pending, next, woken) == [pending |-> pending, next |-> next \o woken]

\* the pairs after the first are thrown away
drain_rest_dropped(buf) == <<>>

\* line 71: drain(..) goes on with the pairs after the one taken
drain_rest(buf) == Tail(buf)

\* lines 71-86: the next buffered pair is written and its watchers are enqueued
Drain ==
    /\ pc = "drain"
    /\ buffer # <<>>
    /\ LET t == Head(buffer)[1]
           v == Head(buffer)[2]
       IN  /\ buffer' = drain_rest(buffer)
           /\ unequal_rewrite' = (unequal_rewrite \/ set_target_inconsistent(witness, t, v))
           /\ IF aborts(witness, t, v)
              THEN /\ pc' = "inconsistent"
                   /\ UNCHANGED <<witness, written, pending_generator_indices,
                                  next_pending_generator_indices>>
              ELSE LET queues == enqueue(pending_generator_indices, next_pending_generator_indices,
                                    Watchers(set_target_returning_rep(witness, t, v),
                                             generator_is_expired))
                   IN  /\ witness' = merge(witness, t, v)
                       /\ written' = written \cup {rep(t)}
                       /\ pending_generator_indices' = queues.pending
                       /\ next_pending_generator_indices' = queues.next
                       /\ UNCHANGED pc
    /\ UNCHANGED <<config_vars, inputs_iter, pos, expiry_vars, history_vars, call_vars,
                   trace_vars>>

\* line 87: the buffer is drained, the for loop moves on
NextGenerator ==
    /\ pc = "drain"
    /\ buffer = <<>>
    /\ pos' = pos + 1
    /\ pc' = "for"
    /\ UNCHANGED <<config_vars, inputs_iter, witness, pending_generator_indices,
                   next_pending_generator_indices, expiry_vars, buffer, history_vars,
                   written, unequal_rewrite, call_vars, trace_vars>>

\* line 89: the round is over
EndRound ==
    /\ pc = "for"
    /\ pos > Len(pending_generator_indices)
    /\ pending_generator_indices' = after_round(pending_generator_indices, next_pending_generator_indices)
    /\ pc' = "while"
    /\ UNCHANGED <<config_vars, inputs_iter, witness, next_pending_generator_indices, pos,
                   expiry_vars, buffer, history_vars, written, unequal_rewrite, call_vars, trace_vars>>

\* lines 92-98: the assertion, then the witness is returned
AssertNoneRemaining ==
    /\ pc = "assert"
    /\ pc' = IF remaining_generators = 0 THEN "returned" ELSE "stalled"
    /\ UNCHANGED <<config_vars, inputs_iter, witness, queue_vars, expiry_vars, buffer,
                   history_vars, written, unequal_rewrite, call_vars, trace_vars>>

Ended == pc \in {"returned", "stalled", "inconsistent"}

\* run() of every generator is a function of the witness it reads
RunIsFunction == \A i \in DOMAIN generators : IsFunction(generators[i])

\* the same call is made a second time, on the same arguments
SecondCall ==
    /\ Ended
    /\ call = 1
    /\ RunIsFunction
    /\ call' = 2
    /\ first_call' = [pc |-> pc, witness |-> witness, invoked |-> invoked]
    /\ inputs_iter' = inputs
    /\ witness' = PartitionWitness_new
    /\ pending_generator_indices' = initial_pending(Len(generators))
    /\ next_pending_generator_indices' = <<>>
    /\ generator_is_expired' = [i \in 1 .. Len(generators) |-> FALSE]
    /\ remaining_generators' = Len(generators)
    /\ buffer' = <<>>
    /\ pos' = 1
    /\ pc' = "inputs"
    /\ round' = 0
    /\ invoked' = <<>>
    /\ finished_log' = <<>>
    /\ written' = {}
    /\ unequal_rewrite' = FALSE
    /\ emitted' = {}
    /\ invoked_round' = <<>>
    /\ UNCHANGED config_vars

Next ==
    \/ SetInput
    \/ InputsDone
    \/ StartRound
    \/ ExitLoop
    \/ SkipExpired
    \/ RunGenerator
    \/ Drain
    \/ NextGenerator
    \/ EndRound
    \/ AssertNoneRemaining
    \/ SecondCall

Spec == Init /\ [][Next]_vars

----------------------------------------------------------------------------
(* The memory of the EVM witness: a MemoryState is made, ops are applied   *)
(* to it and addresses are read.                                           *)

MemInit ==
    /\ kernel_code \in KernelCodes
    /\ memory = MemoryState_new(kernel_code)
    /\ mem_ops = <<>>
    /\ mem_pc = "ready"
    /\ mem_got = None
    /\ prover_data = ProverData(<<>>, Identity)
    /\ inputs = {}
    /\ Enter(prover_data, inputs)
    /\ call = 1
    /\ first_call = NoOutcome
    /\ NewOpsUnused
    /\ SegmentUnused
    /\ EqUnused

\* MemoryState::apply_ops on a slice of ops
ApplyOps ==
    /\ mem_pc = "ready"
    /\ \E ops \in SeqsUpTo(MemoryOps, MaxOps - Len(mem_ops)) :
        /\ ops # <<>>
        /\ LET r == apply_ops(memory, ops) IN
            /\ memory' = r.state
            /\ mem_pc' = IF r.panicked THEN "panicked" ELSE "ready"
        /\ mem_ops' = mem_ops \o ops
    /\ mem_got' = None
    /\ UNCHANGED <<kernel_code, sched_vars, unit_vars>>

\* MemoryState::get
Get ==
    /\ mem_pc = "ready"
    /\ \E address \in MemoryAddresses :
        IF Indexable(memory, address)
        THEN /\ mem_got' = Some(<<address, MemoryState_get(memory, address)>>)
             /\ UNCHANGED mem_pc
        ELSE /\ mem_pc' = "panicked"
             /\ mem_got' = None
    /\ UNCHANGED <<kernel_code, memory, mem_ops, sched_vars, unit_vars>>

MemNext ==
    \/ ApplyOps
    \/ Get

MemSpec == MemInit /\ [][MemNext]_vars

(* MemoryOp::new, called for any channel and clock *)

SchedulerUnused ==
    /\ prover_data = ProverData(<<>>, Identity)
    /\ inputs = {}
    /\ Enter(prover_data, inputs)
    /\ call = 1
    /\ first_call = NoOutcome

OpInit ==
    /\ NewOpsUnused
    /\ SchedulerUnused
    /\ MemoryUnused
    /\ SegmentUnused
    /\ EqUnused

\* MemoryOp::new: the op, or None when the assertion of MemoryChannel::index fails
NewOp ==
    /\ Len(new_ops) < MaxOps
    /\ \E channel \in MemoryChannels, clock \in Clocks :
        new_ops' = Append(new_ops,
            [channel |-> channel,
             clock |-> clock,
             result |-> IF MemoryChannel_index_panics(channel)
                        THEN None
                        ELSE Some(MemoryOp_new(channel, clock, MemoryAddress(0, 0, 0), "Read", 0))])
    /\ UNCHANGED <<sched_vars, mem_vars, segment_state, segment_was, segment_op, eq_args, eq_result>>

OpNext == NewOp

OpSpec == OpInit /\ [][OpNext]_vars

(* MemorySegmentState::get and set on any segment *)

VirtualAddrs == 0 .. (MaxVirt + 1)

SegInit ==
    /\ segment_state \in {[content |-> c] : c \in SeqsUpTo(U256Values, MaxVirt)}
    /\ segment_was = segment_state
    /\ segment_op = None
    /\ SchedulerUnused
    /\ MemoryUnused
    /\ NewOpsUnused
    /\ EqUnused

\* MemorySegmentState::get
SegmentGet ==
    /\ \E virtual_addr \in VirtualAddrs :
        segment_op' = Some([op |-> "get", virtual_addr |-> virtual_addr,
                            value |-> MemorySegmentState_get(segment_state, virtual_addr)])
    /\ segment_was' = segment_state
    /\ UNCHANGED <<segment_state, sched_vars, mem_vars, new_ops, eq_args, eq_result>>

\* MemorySegmentState::set
SegmentSet ==
    /\ \E virtual_addr \in VirtualAddrs, value \in U256Values :
        /\ segment_state' = MemorySegmentState_set(segment_state, virtual_addr, value)
        /\ segment_op' = Some([op |-> "set", virtual_addr |-> virtual_addr, value |-> value])
    /\ segment_was' = segment_state
    /\ UNCHANGED <<sched_vars, mem_vars, new_ops, eq_args, eq_result>>

SegNext ==
    \/ SegmentGet
    \/ SegmentSet

SegSpec == SegInit /\ [][SegNext]_vars

(* Equality of two WitnessGeneratorRef *)

EqInit ==
    /\ eq_args \in EqPool \X EqPool
    /\ eq_result = None
    /\ SchedulerUnused
    /\ MemoryUnused
    /\ NewOpsUnused
    /\ SegmentUnused

\* PartialEq::eq on the two generators
Eq ==
    /\ eq_result = None
    /\ eq_result' = Some(eq(eq_args[1], eq_args[2]))
    /\ UNCHANGED <<eq_args, sched_vars, mem_vars, new_ops, segment_state, segment_was, segment_op>>

EqNext == Eq

EqSpec == EqInit /\ [][EqNext]_vars


\* the loop of one call runs on: every step that is enabled is eventually taken
LiveSpec == Spec /\ WF_vars(Next)

----------------------------------------------------------------------------
(* Properties of generate_partial_witness *)

Populated(w) == {t \in Targets : w[t] # None}

AllIndices == 1 .. Len(generators)

\* C1: the main loop terminates.  An index is appended to the next-round queue only
\* by a write that moved a representative from absent to present, so a call never
\* starts more rounds than one plus the number of populated representatives, and
\* every call ends (returns or panics) and stays ended.
C1_Terminates ==
    /\ [][next_pending_generator_indices' # next_pending_generator_indices /\ pc = "drain"
            => Populated(witness) # Populated(witness') /\ Populated(witness) \subseteq Populated(witness')]_vars
    /\ [](round <= 1 + Cardinality(Populated(witness)))
    /\ <>[]Ended

\* a call that went through more than one round and whose loop has ended
C1_Witness == round >= 3 /\ pc = "assert" /\ pending_generator_indices = <<>>


WatchedReps(gs) == {rep(watch_list(g)[k]) : <<g, k>> \in UNION {{<<g, k>> : k \in DOMAIN watch_list(g)} : g \in gs}}

SimpleGenerators == {generators[i] : i \in {j \in AllIndices : IsSimple(generators[j])}}

FinishedIndices == {finished_log[k][1] : k \in DOMAIN finished_log}

\* C2 as claimed: a returned witness has every representative that was written or that
\* is watched by any generator populated.
C2_Original ==
    pc = "returned" =>
        \A r \in written \cup WatchedReps(Range(generators)) : witness[r] # None

\* C2 as amended: a call that does not abort on an unequal write ends stalled or
\* returned, and a returned witness has every representative that was written, or that
\* is a dependency of a SimpleGeneratorAdapter generator, populated.
C2_CompleteOrStall ==
    /\ pc \in {"inputs", "while", "for", "drain", "assert", "returned", "stalled", "inconsistent"}
    /\ (Ended /\ ~unequal_rewrite => pc \in {"returned", "stalled"})
    /\ (pc = "returned" =>
            \A r \in written \cup WatchedReps(SimpleGenerators) : witness[r] # None)

\* a returned witness with a simple generator that had a dependency, and another
\* generator that retired while a target of its watch list is unpopulated
C2_Witness ==
    /\ pc = "returned"
    /\ \E i \in AllIndices : IsSimple(generators[i]) /\ dependencies(generators[i]) # <<>>
    /\ \E i \in AllIndices :
        /\ ~IsSimple(generators[i])
        /\ \E k \in DOMAIN watch_list(generators[i]) : ~contains(witness, watch_list(generators[i])[k])

ScenarioE ==
    /\ generators = <<CopyGenerator(vt(0), vt(1))>>
    /\ prover_data.representative_map = Identity
    /\ inputs = {}

\* C3: remaining_generators is the number of non-expired generators and is never
\* negative; the call returns exactly when every generator has returned true, and
\* otherwise fails with the number of non-expired generators as its count.  A single
\* Copy(vt(0) -> vt(1)) without input stalls with count 1.
C3_RemainingCount ==
    /\ remaining_generators = Cardinality({i \in AllIndices : ~generator_is_expired[i]})
    /\ remaining_generators >= 0
    /\ (pc = "returned" => FinishedIndices = AllIndices)
    /\ (pc = "stalled" =>
            /\ FinishedIndices # AllIndices
            /\ remaining_generators = Cardinality(AllIndices \ FinishedIndices))
    /\ (ScenarioE /\ Ended => pc = "stalled" /\ remaining_generators = 1)

C3_Witness == ScenarioE /\ pc = "stalled" /\ remaining_generators = 1

\* C4: an unequal write to a populated representative ends the call at that write: no
\* witness is returned, nothing more is written and no generator is invoked after it.
\* An equal write to a populated representative changes nothing and does not abort.
C4_NoUnequalRewrite ==
    /\ [](unequal_rewrite => pc = "inconsistent")
    /\ [](pc = "returned" => ~unequal_rewrite)
    /\ [][pc = "inconsistent" /\ call' = call => witness' = witness /\ invoked' = invoked]_vars
    /\ [][(/\ pc = "drain"
           /\ buffer # <<>>
           /\ contains(witness, Head(buffer)[1])
           /\ get_target(witness, Head(buffer)[1]) = Head(buffer)[2])
            => /\ witness' = witness
               /\ pc' = "drain"
               /\ next_pending_generator_indices' = next_pending_generator_indices]_vars

\* a generated pair met a different value: the call ended there, with a pair still in
\* the buffer and a generator still waiting in the round
C4_Witness ==
    /\ pc = "inconsistent"
    /\ unequal_rewrite
    /\ invoked # <<>>
    /\ buffer # <<>>
    /\ pos < Len(pending_generator_indices)

\* C5: after run() returned true for a generator it is not invoked again in the call,
\* and no generator returns true twice.
C5_NoRunAfterFinished ==
    \A k \in DOMAIN finished_log :
        LET i == finished_log[k][1]
            n == finished_log[k][2]
        IN  /\ invoked[n] = i
            /\ \A m \in DOMAIN invoked : m > n => invoked[m] # i
            /\ \A k2 \in DOMAIN finished_log : finished_log[k2][1] = i => k2 = k

\* an expired generator is met again in the queue, where its index stands twice
C5_Witness ==
    /\ pc = "for"
    /\ pos <= Len(pending_generator_indices)
    /\ generator_is_expired[pending_generator_indices[pos]]
    /\ Cardinality({k \in DOMAIN pending_generator_indices :
                        pending_generator_indices[k] = pending_generator_indices[pos]}) >= 2


IsPrefix(a, b) == Len(a) <= Len(b) /\ \A k \in DOMAIN a : a[k] = b[k]

\* C6: two calls on the same inputs, generators, representative map and watch index,
\* with generators whose run is a function of the witness, invoke the generators in the
\* same sequence and end the same way: both return the same witness, or both fail.
C6_Deterministic ==
    call = 2 =>
        /\ IsPrefix(invoked, first_call.invoked)
        /\ (Ended =>
                /\ pc = first_call.pc
                /\ invoked = first_call.invoked
                /\ (pc = "returned" => witness = first_call.witness))

\* a second call that returned, after two inputs and at least three invocations
C6_Witness ==
    /\ call = 2
    /\ pc = "returned"
    /\ Cardinality(inputs) = 2
    /\ Len(invoked) >= 3

\* C7: within one call a populated representative keeps its value from one step to the
\* next, so the set of populated representatives never shrinks.
C7_Monotone ==
    [][call' = call => \A t \in Targets : witness[t] # None => witness'[t] = witness[t]]_vars

\* a returned witness that was filled over several rounds
C7_Witness ==
    /\ pc = "returned"
    /\ round >= 3
    /\ Cardinality(Populated(witness)) >= 3

ScenarioF(v) ==
    /\ generators = <<CopyGenerator(vt(1), vt(2))>>
    /\ rep(vt(1)) = rep(vt(0))
    /\ inputs = {<<vt(0), v>>}

\* C8: when the representative map identifies a with b and a is an input, a simple
\* generator whose one dependency is b has fired by the end of a call that did not
\* abort, and a CopyGenerator from b has written the value of a to its destination.
\* In scenario F the call returns with vt(2) holding the input of vt(0).
C8_MergedDependencyFires ==
    /\ \A i \in AllIndices : \A p \in inputs :
        (/\ IsSimple(generators[i])
         /\ Len(dependencies(generators[i])) = 1
         /\ dependencies(generators[i])[1] # p[1]
         /\ rep(dependencies(generators[i])[1]) = rep(p[1])
         /\ pc \in {"returned", "stalled"})
            => /\ generator_is_expired[i]
               /\ (generators[i].id = "CopyGenerator"
                      => try_get_target(witness, generators[i].dst) = Some(p[2]))
    /\ \A v \in InputValues :
        ScenarioF(v) /\ Ended
            => /\ pc = "returned"
               /\ try_get_target(witness, vt(2)) = Some(v)
               /\ generator_is_expired[1]

C8_Witness ==
    /\ ScenarioF(9)
    /\ pc = "returned"
    /\ try_get_target(witness, vt(2)) = Some(9)
    /\ witness[vt(1)] = None

\* C9: the copy chain vt(0) -> ... -> vt(n), its n generators in any order and vt(0)
\* the one input, takes at most n rounds and returns with vt(0) .. vt(n) all holding
\* the input and every generator expired.
C9_Chain ==
    \A n \in 1 .. MaxChain :
        IsChainCall(n) =>
            /\ round <= n
            /\ (Ended =>
                    /\ pc = "returned"
                    /\ \A i \in AllIndices : generator_is_expired[i]
                    /\ \A k \in 0 .. n : \A p \in inputs : try_get_target(witness, vt(k)) = Some(p[2]))

\* the longest chain in an order that needs every round
C9_Witness ==
    /\ IsChainCall(MaxChain)
    /\ pc = "returned"
    /\ round = MaxChain
    /\ inputs = {<<vt(0), 3>>}


----------------------------------------------------------------------------
(* Properties of MemoryState *)

\* the value of the last write-kind op to address among ops, zero if there is none
RECURSIVE LastWritten(_, _)
LastWritten(ops, address) ==
    IF ops = <<>> THEN 0
    ELSE LET op == ops[Len(ops)] IN
         IF op.kind = "Write" /\ op.address = address
         THEN op.value
         ELSE LastWritten(SubSeq(ops, 1, Len(ops) - 1), address)

\* C10: on a MemoryState that started empty, apply_ops and get never fail, for any
\* address, and get returns the value of the last write-kind op to the address, or
\* zero if there was none.
C10_Replay ==
    kernel_code = <<>> =>
        /\ mem_pc # "panicked"
        /\ (mem_got # None => Unwrap(mem_got)[2] = LastWritten(mem_ops, Unwrap(mem_got)[1]))

\* what does hold: a get that returns gives the last written value
MemoryReplayWhereIndexable ==
    kernel_code = <<>> /\ mem_got # None
        => Unwrap(mem_got)[2] = LastWritten(mem_ops, Unwrap(mem_got)[1])

\* the ops that are not padding rows
FilterTrue(ops) == SelectSeq(ops, LAMBDA op : op.filter)

\* C11: apply_ops leaves the state as it is for every op with filter = false: the state
\* after apply_ops is the state after applying only the ops with filter = true.
C11_PaddingExcluded ==
    mem_pc = "ready" =>
        memory = apply_ops(MemoryState_new(kernel_code), FilterTrue(mem_ops)).state

\* the index the channel has by the rule: 0 for Code, k + 1 for GeneralPurpose(k)
ChannelRank(channel) == IF channel = Code THEN 0 ELSE channel.n + 1

\* (clock, channel) pairs compared lexicographically by (clock, index)
PairLess(a, b) ==
    \/ a.clock < b.clock
    \/ a.clock = b.clock /\ ChannelRank(a.channel) < ChannelRank(b.channel)

Cell(content, b) == IF b < Len(content) THEN content[b + 1] ELSE 0

Max(a, b) == IF a >= b THEN a ELSE b

\* C13: get(a) returns zero when a is at or beyond the length and the cell otherwise;
\* after set(a, v) the cell a holds v, every other cell is as it was (zero for the cells
\* created between the old length and a), the length is max(old length, a + 1), and a
\* set never shortens the segment.
C13_SegmentReadWrite ==
    segment_op # None =>
        LET o == Unwrap(segment_op)
            a == o.virtual_addr
            old == segment_was.content
            new == segment_state.content
        IN  /\ o.op = "get" =>
                /\ (a >= Len(old) => o.value = 0)
                /\ (a < Len(old) => o.value = old[a + 1])
                /\ new = old
            /\ o.op = "set" =>
                /\ a < Len(new) /\ new[a + 1] = o.value
                /\ \A b \in 0 .. (MaxVirt + 2) : b # a => Cell(new, b) = Cell(old, b)
                /\ \A b \in Len(old) .. (a - 1) : new[b + 1] = 0
                /\ Len(new) = Max(Len(old), a + 1)
                /\ Len(new) >= Len(old)

\* a set one cell beyond the end of a segment that held a value
C13_Witness ==
    /\ segment_op # None
    /\ Unwrap(segment_op).op = "set"
    /\ segment_was.content = <<42>>
    /\ segment_state.content = <<42, 0, 1>>

\* the serialized form { id_string, payload } of a generator
SerializedForm(g) == [id_string |-> id(g), payload |-> serialize(g)]

\* C14: two WitnessGeneratorRef compare equal if and only if their serialized forms
\* { id_string, payload } are equal; two generators with different ids do not compare
\* equal.
C14_EqualIffSameForm ==
    eq_result # None =>
        /\ Unwrap(eq_result) <=> (SerializedForm(eq_args[1]) = SerializedForm(eq_args[2]))
        /\ (id(eq_args[1]) # id(eq_args[2]) => ~Unwrap(eq_result))

\* the watch index lists every generator under the representative of each entry of its
\* watch list
IndexIsByRep ==
    generator_indices_by_watches = IndexByWatches(generators, prover_data.representative_map)

\* the generator indices still to be taken in this round or queued for the next
Queued ==
    CASE pc \in {"inputs", "while"} -> Range(pending_generator_indices)
      [] pc = "for" ->
            {pending_generator_indices[k] : k \in pos .. Len(pending_generator_indices)}
                \cup Range(next_pending_generator_indices)
      [] pc = "drain" ->
            {pending_generator_indices[k] : k \in (pos + 1) .. Len(pending_generator_indices)}
                \cup Range(next_pending_generator_indices)
      [] OTHER -> {}

\* C15: with the watch index keyed by representatives, no wake-up is lost: while the
\* call has not aborted, a SimpleGeneratorAdapter generator that is not expired and has
\* all its dependencies populated is still queued, in the rest of this round or for the
\* next one; so when the loop has exited every non-expired simple generator has a
\* dependency whose representative is unpopulated.
C15_NoLostWakeup ==
    IndexIsByRep /\ pc # "inconsistent" =>
        \A i \in AllIndices :
            (/\ IsSimple(generators[i])
             /\ ~generator_is_expired[i]
             /\ contains_all(witness, dependencies(generators[i])))
                => /\ i \in Queued
                   /\ pc \notin {"assert", "returned", "stalled"}

\* a simple generator that returned false in round 1 was woken by a later write and
\* retired in round 2, and the call returned
C15_Witness ==
    /\ pc = "returned"
    /\ IndexIsByRep
    /\ \E k \in DOMAIN finished_log :
        /\ IsSimple(generators[finished_log[k][1]])
        /\ invoked_round[finished_log[k][2]] = 2
        /\ \E m \in DOMAIN invoked : invoked[m] = finished_log[k][1] /\ invoked_round[m] = 1

\* C16: the pairs emitted by one invocation are all written into the witness before the
\* next generator is invoked, so a generator later in the queue of the same round reads
\* them; the buffer is empty at the start of every invocation.
C16_SameRoundVisibility ==
    /\ [](pc \notin {"drain", "inconsistent"} =>
            /\ buffer = <<>>
            /\ \A p \in emitted : try_get_target(witness, p[1]) = Some(p[2]))
    /\ [][pc = "for" /\ pc' = "drain" /\ call' = call =>
            /\ buffer = <<>>
            /\ \A p \in emitted : try_get_target(witness, p[1]) = Some(p[2])]_vars

\* the second generator of round 1 read what the first one of round 1 wrote
C16_Witness ==
    /\ generators = <<CopyGenerator(vt(0), vt(1)), CopyGenerator(vt(1), vt(2))>>
    /\ prover_data.representative_map = Identity
    /\ inputs = {<<vt(0), 3>>}
    /\ invoked = <<1, 2>>
    /\ invoked_round = <<1, 1>>
    /\ emitted = {<<vt(1), 3>>, <<vt(2), 3>>}
    /\ witness[vt(2)] = Some(3)
    /\ pc = "for"

\* the representatives a step has populated
NewlyPopulated == {t \in Targets : witness[t] = None /\ witness'[t] # None}

\* the non-expired generators that watch one of the representatives rs
WatchersOf(rs) ==
    {i \in AllIndices :
        /\ ~generator_is_expired[i]
        /\ \E k \in DOMAIN watch_list(generators[i]) : rep(watch_list(generators[i])[k]) \in rs}

InvokedInRound1 == Cardinality({k \in DOMAIN invoked : invoked_round[k] = 1})

Round1Over ==
    \/ round >= 2
    \/ round = 1 /\ pc \in {"while", "assert", "returned", "stalled"}

\* C18: in round 1 every generator is invoked exactly once, in increasing index order,
\* unless the call aborts first.  A generator with an empty watch list is never put on
\* a next-round queue and is invoked in round 1 only; a simple generator without
\* dependencies fires and is expired at its invocation of round 1.
C18_RoundOne ==
    /\ \A k \in 1 .. InvokedInRound1 : invoked[k] = k /\ invoked_round[k] = 1
    /\ (Round1Over => InvokedInRound1 = Len(generators))
    /\ \A i \in AllIndices :
        watch_list(generators[i]) = <<>> =>
            /\ i \notin Range(next_pending_generator_indices)
            /\ (Round1Over => i \notin Range(pending_generator_indices))
            /\ \A k \in DOMAIN invoked : invoked[k] = i => invoked_round[k] = 1
            /\ (IsSimple(generators[i]) /\ i \in Range(invoked) /\ pc # "drain"
                    => generator_is_expired[i])
            /\ (IsSimple(generators[i]) /\ Round1Over => generator_is_expired[i])

\* a generator without watch list returned false in round 1 and was not invoked in
\* round 2, where the generator it woke ran again
C18_Witness ==
    /\ Len(generators) = 2
    /\ watch_list(generators[2]) = <<>>
    /\ ~generator_is_expired[2]
    /\ invoked = <<1, 2, 1>>
    /\ invoked_round = <<1, 1, 2>>
    /\ pc = "stalled"

\* C19: SimpleGeneratorAdapter::run returns true and calls run_once exactly when the
\* representative of every dependency is populated, and otherwise returns false and
\* appends nothing; so in one call of generate_partial_witness run_once is called at
\* most once for a simple generator, even when its index stands several times in the
\* queue of a round.
C19_RunOnceOnce ==
    /\ [][pc = "for" /\ pc' = "drain" =>
            LET i == pending_generator_indices[pos]
                g == generators[i]
                ready == \A k \in DOMAIN dependencies(g) : witness[rep(dependencies(g)[k])] # None
            IN  IsSimple(g) =>
                    /\ generator_is_expired'[i] <=> ready
                    /\ ~ready =>
                            /\ buffer' = <<>>
                            /\ emitted' = emitted
                            /\ finished_log' = finished_log
                            /\ remaining_generators' = remaining_generators
                    /\ ready =>
                            /\ finished_log' = Append(finished_log, <<i, Len(invoked')>>)
                            /\ remaining_generators' = remaining_generators - 1
                            /\ (g.id = "CopyGenerator" =>
                                    buffer' = << <<g.dst, Unwrap(witness[rep(g.src)])>> >>)
                            /\ (g.id = "ConstantGenerator" => Len(buffer') = 1)]_vars
    /\ [](\A i \in AllIndices :
            IsSimple(generators[i]) =>
                Cardinality({k \in DOMAIN finished_log : finished_log[k][1] = i}) <= 1)

\* the index of a simple generator stood twice in the queue of round 2: it was run at
\* the first and passed over at the second
C19_Witness ==
    /\ Len(generators) = 2
    /\ IsSimple(generators[1])
    /\ pending_generator_indices = <<1, 1>>
    /\ round = 2
    /\ pc = "for"
    /\ pos = 3
    /\ invoked = <<1, 2, 1>>
    /\ finished_log = <<<<2, 2>>, <<1, 3>>>>

\* the watch index is keyed by the raw entries of the watch lists
IndexIsRaw == generator_indices_by_watches = IndexByWatches(generators, Identity)

\* scenario F on a raw-keyed index: the entry of Copy(vt(1) -> vt(2)) stands under vt(1)
RawScenarioF(v) ==
    /\ ScenarioF(v)
    /\ rep(vt(0)) = vt(0)
    /\ IndexIsRaw
    /\ generator_indices_by_watches[vt(1)] = <<1>>

\* the copy stands before the generator that writes the representative of its source
RawLateWrite ==
    /\ generators = <<CopyGenerator(vt(1), vt(2)), ConstantGenerator(0, 0, 0, 1)>>
    /\ prover_data.representative_map = UnderWire
    /\ IndexIsRaw
    /\ inputs = {}

\* C20 as claimed: on a raw-keyed index scenario F ends in the stall failure, the Copy
\* generator never fires and vt(2) is left unpopulated.
C20_Original ==
    RawScenarioF(9) /\ Ended =>
        /\ pc = "stalled"
        /\ ~generator_is_expired[1]
        /\ try_get_target(witness, vt(2)) = None

\* C20 as amended: on a raw-keyed index scenario F still returns vt(2) = the input of
\* vt(0), the Copy generator firing at its invocation of round 1; the call stalls when
\* the representative is written during the loop after the invocation of the copy.
C20_RawIndex ==
    /\ \A v \in InputValues :
        RawScenarioF(v) /\ Ended =>
            /\ pc = "returned"
            /\ try_get_target(witness, vt(2)) = Some(v)
            /\ invoked = <<1>>
            /\ finished_log = <<<<1, 1>>>>
    /\ RawLateWrite /\ Ended =>
            /\ pc = "stalled"
            /\ remaining_generators = 1
            /\ ~generator_is_expired[1]
            /\ witness[wire(0, 0)] = Some(1)
            /\ try_get_target(witness, vt(2)) = None
            /\ invoked = <<1, 2>>

\* scenario F on the raw-keyed index has returned
C20_Witness ==
    /\ RawScenarioF(9)
    /\ pc = "returned"
    /\ try_get_target(witness, vt(2)) = Some(9)
    /\ finished_log = <<<<1, 1>>>>

====
